---- MODULE Spec2Model ----
(***************************************************************************)
(* Model of the event broadcast hub of mulchd (src/cmd/mulchd/libvirt.go,  *)
(* second file of the listing: Hub, HubClient, NewHub, Hub.Run,            *)
(* Hub.Broadcast, Hub.Register, HubClient.Unregister).                     *)
(*                                                                         *)
(* Goroutines: one dispatch loop (Hub.Run), one Register caller and one    *)
(* consumer loop per HubClient, Unregister callers, Broadcast callers.     *)
(* All channels are unbuffered, so a send and the matching receive are one *)
(* joint step (a rendezvous) of the sender and the receiver.               *)
(*                                                                         *)
(* A second part models Libvirt.GetOrCreateStoragePool and                 *)
(* Libvirt.GetOrCreateNetwork (first file of the listing) statement by     *)
(* statement, with the outcome of every library call drawn from the        *)
(* outcomes it can have.                                                   *)
(***************************************************************************)
EXTENDS Naturals, Sequences, FiniteSets

\* Number of calls of Register, Unregister and Broadcast in one run, in any mix.
MaxCalls == 4
\* The same for the runs checked for liveness, which are one call shorter.
LiveCalls == MaxCalls - 1

\* Register call s allocates HubClient s; Broadcast call m carries message m.
Subs == 1..MaxCalls
Msgs == 1..MaxCalls

VARIABLES
  \* ---- program state ----
  clients,      \* Hub.clients: the set of keys of the map
  closed,       \* the HubClients whose Messages channel is closed
  hubPc,        \* where Hub.Run is: "select", "register", "unregister", "broadcast"
  hubClient,    \* the client received in the register / unregister case (0: none)
  hubMsg,       \* the message received in the broadcast case (0: none)
  todo,         \* the clients the range loop of the broadcast case has yet to visit
  regPc,        \* Register(s): "none", "sending" (blocked at h.register <- client), "done"
  unregCalls,   \* number of Unregister calls started so far
  unregSending, \* the clients with an Unregister call blocked at hub.unregister <- hc
  bcPc,         \* Broadcast(m): "none", "sending" (blocked at h.broadcast <- message), "done"
  cons,         \* consumer loop of s: "none", "running", "waiting" (parked in a
                \* receive on s.Messages), "eos" (has observed the channel closed)
  received,     \* the messages the consumer of s got from s.Messages, in order
  budget,       \* number of calls the callers of this run will still start
  panicked,     \* a Go runtime panic was raised (send on / close of a closed channel)
  \* ---- history (observations only, never read by the program) ----
  accepted,     \* the messages in the order the dispatch loop received them
  activeAt,     \* activeAt[m]: Hub.clients when m was received by the loop
  attempted,    \* attempted[m]: the clients on which a send of m was attempted
  regAtStart,   \* regAtStart[m]: the clients whose Register had returned when Broadcast(m) was called
  goneAt,       \* goneAt[m]: the clients already closed when m was received by the loop
  regStartAcc,  \* regStartAcc[s]: Len(accepted) when Register(s) was called
  insertedAcc,  \* insertedAcc[s]: Len(accepted) when s was put in Hub.clients
  closes,       \* closes[s]: number of close(s.Messages) executed
  evicted,      \* the clients closed by the default branch of the fan-out
  everParked,   \* the clients whose consumer has ever executed a receive
  unregRet,     \* unregRet[s]: 0 while no Unregister(s) has returned, else 1 + the
                \* number of Broadcast calls started when the first one returned
  \* ---- libvirt: the resources known to the hypervisor ----
  libExists,    \* libExists[k]: the pool / network is defined
  libActive,    \* libActive[k]: the pool / network has been created (started)
  \* ---- one call of GetOrCreateStoragePool / GetOrCreateNetwork ----
  gocKind,      \* "pool" or "network": which of the two functions runs
  gocMode,      \* the mode argument of GetOrCreateStoragePool
  gocPc,        \* the statement the call is at; "idle", "returned", "crashed"
  errP,         \* errP / errN: "nil", "notfound" (the specific code), "other"
  handle,       \* the local pool / net: "nil" or "h", a valid handle
  err,          \* the local err is non-nil
  cfgMode,      \* poolcfg.Target.Permissions.Mode
  ret,          \* the error result: "none" (not returned), "ok" (nil), "err"
  retHandle,    \* the handle result: "nil" or "h"
  \* ---- history of the call ----
  failed,       \* the first step after the lookup that failed, "none" if none did
  usedNil,      \* a method was called on the nil handle
  definedNow,   \* this call defined the resource
  createdNow    \* this call created the resource

hubVars  == <<clients, closed, hubPc, hubClient, hubMsg, todo, panicked>>
callVars == <<regPc, unregCalls, unregSending, bcPc, budget>>
consVars == <<cons, received>>
histVars == <<accepted, activeAt, attempted, regAtStart, goneAt, regStartAcc,
              insertedAcc, closes, evicted, everParked, unregRet>>
libVars  == <<libExists, libActive>>
gocVars  == <<gocKind, gocMode, gocPc, errP, handle, err, cfgMode, ret, retHandle>>
gocHist  == <<failed, usedNil, definedNow, createdNow>>
libvirtVars == <<libVars, gocVars, gocHist>>
hubAll   == <<hubVars, callVars, consVars, histVars>>
vars == <<hubAll, libvirtVars>>

\* The two get-or-create functions and the values of the mode argument.
Kinds == {"pool", "network"}
Modes == {"", "0711"}

----------------------------------------------------------------------------
\* NewHub: three unbuffered intake channels and an empty map; Run is at its select.

HubInit ==
  /\ clients = {}
  /\ closed = {}
  /\ hubPc = "select"
  /\ hubClient = 0
  /\ hubMsg = 0
  /\ todo = {}
  /\ regPc = [s \in Subs |-> "none"]
  /\ unregCalls = 0
  /\ unregSending = {}
  /\ bcPc = [m \in Msgs |-> "none"]
  /\ cons = [s \in Subs |-> "none"]
  /\ received = [s \in Subs |-> <<>>]
  /\ panicked = FALSE
  /\ accepted = <<>>
  /\ activeAt = [m \in Msgs |-> {}]
  /\ attempted = [m \in Msgs |-> {}]
  /\ regAtStart = [m \in Msgs |-> {}]
  /\ goneAt = [m \in Msgs |-> {}]
  /\ regStartAcc = [s \in Subs |-> 0]
  /\ insertedAcc = [s \in Subs |-> 0]
  /\ closes = [s \in Subs |-> 0]
  /\ evicted = {}
  /\ everParked = {}
  /\ unregRet = [s \in Subs |-> 0]

\* NewLibvirt: a connection, nothing looked up yet.
LibvirtInit ==
  /\ gocKind = "pool"
  /\ gocMode = ""
  /\ gocPc = "idle"
  /\ errP = "nil"
  /\ handle = "nil"
  /\ err = FALSE
  /\ cfgMode = ""
  /\ ret = "none"
  /\ retHandle = "nil"
  /\ failed = "none"
  /\ usedNil = FALSE
  /\ definedNow = FALSE
  /\ createdNow = FALSE

\* A hypervisor that knows neither the pool nor the network yet.
LibvirtEmpty ==
  /\ libExists = [k \in Kinds |-> FALSE]
  /\ libActive = [k \in Kinds |-> FALSE]

Init == HubInit /\ budget = MaxCalls /\ LibvirtInit /\ LibvirtEmpty

\* The initial state of the runs checked for liveness.
LiveInit == HubInit /\ budget = LiveCalls /\ LibvirtInit /\ LibvirtEmpty

\* The initial states of the runs of the get-or-create functions: the
\* hypervisor may or may not know the pool and the network already.
GocInit ==
  /\ HubInit /\ budget = MaxCalls /\ LibvirtInit
  /\ libExists \in [Kinds -> BOOLEAN]
  /\ libActive = libExists

----------------------------------------------------------------------------
\* Helpers translated from single statements of Hub.Run.

\* An intake with room for a request: the send never waits for the loop.
IntakeBuffered == TRUE

\* A select that is also reached from inside the range loop of a fan-out.
IntakeDuringFanOut == hubPc \in {"select", "broadcast"}

\* A send on an unbuffered intake channel completes only when Run is at its
\* select, ready to receive (make(chan ...) without capacity, select {...}).
IntakeReady == hubPc = "select"

\* A register case that leaves the map as it was.
RegisterInsertLost(cl, c) == cl

\* h.clients[client] = true
RegisterInsert(cl, c) == cl \cup {c}

\* An unregister case without the membership test.
UnregisterUnchecked(cl, c) == TRUE

\* if _, ok := h.clients[client]; ok
UnregisterPresent(cl, c) == c \in cl

\* A removal that forgets the delete.
MapDeleteForgotten(cl, c) == cl

\* delete(h.clients, client)
MapDelete(cl, c) == cl \ {c}

\* for client := range h.clients: the clients the loop will visit
RangeClients(cl) == cl

\* A Messages channel with a buffer: the send succeeds with no receiver parked.
SendReadyBuffered(c) == TRUE

\* A send that is given a grace once the client has taken a first message.
SendReadyGrace(c) == cons[c] = "waiting" \/ Len(received[c]) > 0

\* select { case client.Messages <- message: ... default: ... } on an unbuffered
\* channel: the send case is taken only when a receiver is already parked.
SendReady(c) == cons[c] = "waiting"

\* close(ch): a parked receiver gets end-of-stream; closing twice panics.
CloseChan(c) ==
  /\ closed' = closed \cup {c}
  /\ closes' = [closes EXCEPT ![c] = @ + 1]
  /\ cons' = [cons EXCEPT ![c] = IF @ = "waiting" THEN "eos" ELSE @]
  /\ panicked' = (c \in closed)

----------------------------------------------------------------------------
\* Hub.Register: allocate the client, send it on h.register, return it.

\* A Register that puts the client in the map from the caller's goroutine.
RegisterCallWritesMap(s) ==
  /\ ~panicked
  /\ UNCHANGED libvirtVars
  /\ budget > 0
  /\ budget' = budget - 1
  /\ regPc[s] = "none"
  /\ \A t \in Subs : t < s => regPc[t] # "none"
  /\ regPc' = [regPc EXCEPT ![s] = "sending"]
  /\ regStartAcc' = [regStartAcc EXCEPT ![s] = Len(accepted)]
  /\ clients' = clients \cup {s}
  /\ UNCHANGED <<closed, hubPc, hubClient, hubMsg, todo, panicked,
                 unregCalls, unregSending, bcPc, consVars,
                 accepted, activeAt, attempted, regAtStart, goneAt,
                 insertedAcc, closes, evicted, everParked, unregRet>>

\* The caller has built the HubClient and is about to send (line 222).
RegisterCall(s) ==
  /\ ~panicked
  /\ UNCHANGED libvirtVars
  /\ budget > 0
  /\ budget' = budget - 1
  /\ regPc[s] = "none"
  /\ \A t \in Subs : t < s => regPc[t] # "none"
  /\ regPc' = [regPc EXCEPT ![s] = "sending"]
  /\ regStartAcc' = [regStartAcc EXCEPT ![s] = Len(accepted)]
  /\ UNCHANGED <<hubVars, unregCalls, unregSending, bcPc, consVars,
                 accepted, activeAt, attempted, regAtStart, goneAt,
                 insertedAcc, closes, evicted, everParked, unregRet>>

\* case client := <-h.register, jointly with h.register <- client: Register
\* returns the client and its owner may start the consumer loop.
HubRegister(s) ==
  /\ ~panicked
  /\ UNCHANGED libvirtVars
  /\ regPc[s] = "sending"
  /\ IntakeReady
  /\ regPc' = [regPc EXCEPT ![s] = "done"]
  /\ hubPc' = "register"
  /\ hubClient' = s
  /\ cons' = [cons EXCEPT ![s] = "running"]
  /\ UNCHANGED <<clients, closed, hubMsg, todo, panicked, unregCalls,
                 unregSending, bcPc, budget, received, histVars>>

\* body of the register case
HubRegisterBody ==
  /\ ~panicked
  /\ UNCHANGED libvirtVars
  /\ hubPc = "register"
  /\ clients' = RegisterInsert(clients, hubClient)
  /\ insertedAcc' = [insertedAcc EXCEPT ![hubClient] = Len(accepted)]
  /\ hubPc' = "select"
  /\ hubClient' = 0
  /\ UNCHANGED <<closed, hubMsg, todo, panicked, callVars, consVars,
                 accepted, activeAt, attempted, regAtStart, goneAt,
                 regStartAcc, closes, evicted, everParked, unregRet>>

----------------------------------------------------------------------------
\* HubClient.Unregister: send the client on hub.unregister.

UnregisterCall(s) ==
  /\ ~panicked
  /\ UNCHANGED libvirtVars
  /\ regPc[s] = "done"
  /\ s \notin unregSending
  /\ budget > 0
  /\ budget' = budget - 1
  /\ unregCalls' = unregCalls + 1
  /\ unregSending' = unregSending \cup {s}
  /\ UNCHANGED <<hubVars, regPc, bcPc, consVars, histVars>>

\* case client := <-h.unregister, jointly with hc.hub.unregister <- hc
HubUnregister(s) ==
  /\ ~panicked
  /\ UNCHANGED libvirtVars
  /\ s \in unregSending
  /\ IntakeReady
  /\ unregSending' = unregSending \ {s}
  /\ hubPc' = "unregister"
  /\ hubClient' = s
  /\ unregRet' = [unregRet EXCEPT ![s] =
                    IF @ = 0 THEN 1 + Cardinality({m \in Msgs : bcPc[m] # "none"})
                             ELSE @]
  /\ UNCHANGED <<clients, closed, hubMsg, todo, panicked, regPc, unregCalls,
                 bcPc, budget, consVars, accepted, activeAt, attempted,
                 regAtStart, goneAt, regStartAcc, insertedAcc, closes, evicted,
                 everParked>>

\* An unregister case that removes the client and leaves its channel open.
HubUnregisterNoClose ==
  /\ ~panicked
  /\ UNCHANGED libvirtVars
  /\ hubPc = "unregister"
  /\ clients' = MapDelete(clients, hubClient)
  /\ hubPc' = "select"
  /\ hubClient' = 0
  /\ UNCHANGED <<closed, closes, cons, panicked, hubMsg, todo, callVars, received,
                 accepted, activeAt, attempted, regAtStart, goneAt,
                 regStartAcc, insertedAcc, evicted, everParked, unregRet>>

\* body of the unregister case
HubUnregisterBody ==
  /\ ~panicked
  /\ UNCHANGED libvirtVars
  /\ hubPc = "unregister"
  /\ IF UnregisterPresent(clients, hubClient)
       THEN /\ clients' = MapDelete(clients, hubClient)
            /\ CloseChan(hubClient)
       ELSE UNCHANGED <<clients, closed, closes, cons, panicked>>
  /\ hubPc' = "select"
  /\ hubClient' = 0
  /\ UNCHANGED <<hubMsg, todo, callVars, received,
                 accepted, activeAt, attempted, regAtStart, goneAt,
                 regStartAcc, insertedAcc, evicted, everParked, unregRet>>

----------------------------------------------------------------------------
\* Hub.Broadcast: send the message on h.broadcast.

BroadcastCall(m) ==
  /\ ~panicked
  /\ UNCHANGED libvirtVars
  /\ budget > 0
  /\ budget' = budget - 1
  /\ bcPc[m] = "none"
  /\ \A k \in Msgs : k < m => bcPc[k] # "none"
  /\ bcPc' = [bcPc EXCEPT ![m] = "sending"]
  /\ regAtStart' = [regAtStart EXCEPT ![m] = {s \in Subs : regPc[s] = "done"}]
  /\ UNCHANGED <<hubVars, regPc, unregCalls, unregSending, consVars,
                 accepted, activeAt, attempted, goneAt, regStartAcc,
                 insertedAcc, closes, evicted, everParked, unregRet>>

\* case message := <-h.broadcast, jointly with h.broadcast <- message:
\* Broadcast returns; the range loop over h.clients starts.
HubBroadcast(m) ==
  /\ ~panicked
  /\ UNCHANGED libvirtVars
  /\ bcPc[m] = "sending"
  /\ IntakeReady
  /\ bcPc' = [bcPc EXCEPT ![m] = "done"]
  /\ accepted' = Append(accepted, m)
  /\ activeAt' = [activeAt EXCEPT ![m] = clients]
  /\ goneAt' = [goneAt EXCEPT ![m] = closed]
  /\ IF RangeClients(clients) = {}
       THEN hubPc' = "select" /\ hubMsg' = 0 /\ todo' = {}
       ELSE hubPc' = "broadcast" /\ hubMsg' = m /\ todo' = RangeClients(clients)
  /\ UNCHANGED <<clients, closed, hubClient, panicked, regPc, unregCalls,
                 unregSending, budget, consVars, attempted, regAtStart, regStartAcc,
                 insertedAcc, closes, evicted, everParked, unregRet>>

\* A send that lands on the channel of whichever consumer is parked.
DeliverCrossTalk(c) ==
  /\ \E t \in Subs :
       /\ cons[t] = "waiting"
       /\ received' = [received EXCEPT ![t] = Append(@, hubMsg)]
       /\ cons' = [cons EXCEPT ![t] = "running"]
  /\ UNCHANGED <<clients, closed, closes, panicked, evicted>>

\* A send that hands the message over twice.
DeliverTwice(c) ==
  /\ received' = [received EXCEPT ![c] = Append(Append(@, hubMsg), hubMsg)]
  /\ cons' = [cons EXCEPT ![c] = "running"]
  /\ UNCHANGED <<clients, closed, closes, panicked, evicted>>

\* case client.Messages <- message: the parked receiver takes the message.
Deliver(c) ==
  /\ received' = [received EXCEPT ![c] = Append(@, hubMsg)]
  /\ cons' = [cons EXCEPT ![c] = "running"]
  /\ UNCHANGED <<clients, closed, closes, panicked, evicted>>

\* A failed send that only drops the message and keeps the client.
EvictSkip(c) ==
  UNCHANGED <<clients, closed, closes, cons, panicked, evicted, received>>

\* default: close(client.Messages); delete(h.clients, client)
Evict(c) ==
  /\ CloseChan(c)
  /\ clients' = MapDelete(clients, c)
  /\ evicted' = evicted \cup {c}
  /\ UNCHANGED received

\* A fan-out whose send blocks until the receiver is parked.
HubFanOutBlocking(c) ==
  /\ ~panicked
  /\ UNCHANGED libvirtVars
  /\ hubPc = "broadcast"
  /\ c \in todo
  /\ c \notin closed
  /\ SendReady(c)
  /\ attempted' = [attempted EXCEPT ![hubMsg] = @ \cup {c}]
  /\ Deliver(c)
  /\ todo' = todo \ {c}
  /\ IF todo' = {}
       THEN hubPc' = "select" /\ hubMsg' = 0
       ELSE UNCHANGED <<hubPc, hubMsg>>
  /\ UNCHANGED <<hubClient, callVars, accepted, activeAt,
                 regAtStart, goneAt, regStartAcc, insertedAcc, everParked, unregRet>>

\* A fan-out that leaves the range loop at the first failed send.
HubFanOutBreak(c) ==
  /\ ~panicked
  /\ UNCHANGED libvirtVars
  /\ hubPc = "broadcast"
  /\ c \in todo
  /\ c \notin closed
  /\ attempted' = [attempted EXCEPT ![hubMsg] = @ \cup {c}]
  /\ IF SendReady(c)
       THEN Deliver(c) /\ todo' = todo \ {c}
       ELSE Evict(c) /\ todo' = {}
  /\ IF todo' = {}
       THEN hubPc' = "select" /\ hubMsg' = 0
       ELSE UNCHANGED <<hubPc, hubMsg>>
  /\ UNCHANGED <<hubClient, callVars, accepted, activeAt,
                 regAtStart, goneAt, regStartAcc, insertedAcc, everParked, unregRet>>

\* A fan-out that tries the same client again until its receiver is parked.
HubFanOutRetry(c) ==
  /\ ~panicked
  /\ UNCHANGED libvirtVars
  /\ hubPc = "broadcast"
  /\ c \in todo
  /\ c \notin closed
  /\ attempted' = [attempted EXCEPT ![hubMsg] = @ \cup {c}]
  /\ IF SendReady(c)
       THEN Deliver(c) /\ todo' = todo \ {c}
       ELSE /\ UNCHANGED <<clients, closed, closes, cons, panicked, evicted,
                           received>>
            /\ todo' = todo
  /\ IF todo' = {}
       THEN hubPc' = "select" /\ hubMsg' = 0
       ELSE UNCHANGED <<hubPc, hubMsg>>
  /\ UNCHANGED <<hubClient, callVars, accepted, activeAt,
                 regAtStart, goneAt, regStartAcc, insertedAcc, everParked, unregRet>>

\* One iteration of the range loop: the non-blocking send to client c, and in
\* its default branch close(client.Messages); delete(h.clients, client).
HubFanOut(c) ==
  /\ ~panicked
  /\ UNCHANGED libvirtVars
  /\ hubPc = "broadcast"
  /\ c \in todo
  /\ attempted' = [attempted EXCEPT ![hubMsg] = @ \cup {c}]
  /\ IF c \in closed
       THEN \* a send on a closed channel panics
            /\ panicked' = TRUE
            /\ UNCHANGED <<clients, closed, closes, cons, received, evicted>>
       ELSE IF SendReady(c) THEN Deliver(c) ELSE Evict(c)
  /\ todo' = todo \ {c}
  /\ IF todo' = {}
       THEN hubPc' = "select" /\ hubMsg' = 0
       ELSE UNCHANGED <<hubPc, hubMsg>>
  /\ UNCHANGED <<hubClient, callVars, accepted, activeAt,
                 regAtStart, goneAt, regStartAcc, insertedAcc, everParked, unregRet>>

----------------------------------------------------------------------------
\* The owner's consumer loop: for m := range client.Messages { ... }

\* The consumer reaches its receive: it parks on an open channel and observes
\* end-of-stream on a closed one.
ConsumerRecv(s) ==
  /\ ~panicked
  /\ UNCHANGED libvirtVars
  /\ cons[s] = "running"
  /\ cons' = [cons EXCEPT ![s] = IF s \in closed THEN "eos" ELSE "waiting"]
  /\ everParked' = everParked \cup {s}
  /\ UNCHANGED <<hubVars, callVars, received, accepted, activeAt, attempted,
                 regAtStart, goneAt, regStartAcc, insertedAcc, closes, evicted,
                 unregRet>>

----------------------------------------------------------------------------
Next ==
  \/ \E s \in Subs : RegisterCall(s)
  \/ \E s \in Subs : HubRegister(s)
  \/ HubRegisterBody
  \/ \E s \in Subs : UnregisterCall(s)
  \/ \E s \in Subs : HubUnregister(s)
  \/ HubUnregisterBody
  \/ \E m \in Msgs : BroadcastCall(m)
  \/ \E m \in Msgs : HubBroadcast(m)
  \/ \E c \in Subs : HubFanOut(c)
  \/ \E s \in Subs : ConsumerRecv(s)

Spec == Init /\ [][Next]_vars

\* A step of the dispatch loop inside a case body: the loop is at exactly one
\* place, so at most one of these is enabled.
HubBody == HubRegisterBody \/ HubUnregisterBody \/ \E c \in Subs : HubFanOut(c)

\* The dispatch loop is a goroutine that keeps running: the body it is in is
\* eventually executed, and select picks at random among its ready cases, so
\* a case that is ready again and again is eventually taken.  Callers and
\* consumers may stop at any point.
FairSpec ==
  /\ LiveInit /\ [][Next]_vars
  /\ WF_vars(HubBody)
  /\ SF_vars(\E s \in Subs : HubRegister(s))
  /\ SF_vars(\E s \in Subs : HubUnregister(s))
  /\ SF_vars(\E m \in Msgs : HubBroadcast(m))

\* The same loop with owners that keep reading: a consumer goroutine that is
\* in its range loop eventually reaches its next receive.
ReaderFairSpec ==
  /\ FairSpec
  /\ \A s \in Subs : WF_vars(ConsumerRecv(s))

----------------------------------------------------------------------------
\* Libvirt.GetOrCreateStoragePool (lines 53-112) and Libvirt.GetOrCreateNetwork
\* (lines 115-158), one action per statement that can fail.

\* return nil, fmt.Errorf(...): an error and no handle
ReturnErr(step) ==
  /\ gocPc' = "returned"
  /\ ret' = "err"
  /\ retHandle' = "nil"
  /\ failed' = step

\* return pool, nil / return net, netcfg, nil
ReturnHandle ==
  /\ gocPc' = "returned"
  /\ ret' = "ok"
  /\ retHandle' = handle
  /\ UNCHANGED failed

\* fall through to the next statement
Goto(pc) ==
  /\ gocPc' = pc
  /\ UNCHANGED <<ret, retHandle, failed>>

\* The first statement after the if errP != nil block.
AfterLookup(k) == IF k = "pool" THEN "refresh" ELSE "getxml"

\* A caller (NewApp) invokes one of the two functions.
GetOrCreateCall(k, md) ==
  /\ gocPc = "idle"
  /\ gocKind' = k
  /\ gocMode' = md
  /\ gocPc' = "lookup"
  /\ errP' = "nil"
  /\ handle' = "nil"
  /\ err' = FALSE
  /\ cfgMode' = ""
  /\ ret' = "none"
  /\ retHandle' = "nil"
  /\ failed' = "none"
  /\ usedNil' = FALSE
  /\ definedNow' = FALSE
  /\ createdNow' = FALSE
  /\ UNCHANGED <<hubAll, libVars>>

\* pool, errP := lv.conn.LookupStoragePoolByName(poolName) and the tests on
\* errP (lines 54-57, 104-105); net, errN := lv.conn.LookupNetworkByName and the
\* tests on errN (lines 116-119, 141-143).  Only GetOrCreateNetwork has an
\* else branch for an error that is not the not-found code.
LookupByName(o) ==
  /\ gocPc = "lookup"
  /\ o \in (IF libExists[gocKind] THEN {"nil", "other"} ELSE {"notfound", "other"})
  /\ errP' = o
  /\ handle' = IF o = "nil" THEN "h" ELSE "nil"
  /\ IF o = "nil" THEN Goto(AfterLookup(gocKind))
     ELSE IF o = "notfound" THEN Goto("readfile")
     ELSE IF gocKind = "network" THEN ReturnErr("none")
     ELSE Goto(AfterLookup(gocKind))
  /\ UNCHANGED <<hubAll, libVars, gocKind, gocMode, err, cfgMode,
                 usedNil, definedNow, createdNow>>

\* xml, err := ioutil.ReadFile(templateFile) (lines 60-63, 122-125)
ReadFile(ok) ==
  /\ gocPc = "readfile"
  /\ err' = ~ok
  /\ IF ok THEN Goto(IF gocKind = "pool" THEN "unmarshal" ELSE "define")
           ELSE ReturnErr("readfile")
  /\ UNCHANGED <<hubAll, libVars, gocKind, gocMode, errP, handle, cfgMode,
                 usedNil, definedNow, createdNow>>

\* err = poolcfg.Unmarshal(string(xml)) (lines 65-69)
PoolcfgUnmarshal(ok) ==
  /\ gocPc = "unmarshal"
  /\ err' = ~ok
  /\ IF ok THEN Goto("abs") ELSE ReturnErr("unmarshal")
  /\ UNCHANGED <<hubAll, libVars, gocKind, gocMode, errP, handle, cfgMode,
                 usedNil, definedNow, createdNow>>

\* absPoolPath, err := filepath.Abs(poolPath), then the mode (lines 73-82)
FilepathAbs(ok) ==
  /\ gocPc = "abs"
  /\ err' = ~ok
  /\ IF ok THEN /\ Goto("marshal")
                /\ cfgMode' = IF gocMode # "" THEN gocMode ELSE cfgMode
           ELSE /\ ReturnErr("abs")
                /\ UNCHANGED cfgMode
  /\ UNCHANGED <<hubAll, libVars, gocKind, gocMode, errP, handle,
                 usedNil, definedNow, createdNow>>

\* out, err := poolcfg.Marshal() (lines 84-87)
PoolcfgMarshal(ok) ==
  /\ gocPc = "marshal"
  /\ err' = ~ok
  /\ IF ok THEN Goto("define") ELSE ReturnErr("marshal")
  /\ UNCHANGED <<hubAll, libVars, gocKind, gocMode, errP, handle, cfgMode,
                 usedNil, definedNow, createdNow>>

\* pool, err = lv.conn.StoragePoolDefineXML(...) (lines 89-92);
\* net, err = lv.conn.NetworkDefineXML(...) (lines 127-130)
DefineXML(ok) ==
  /\ gocPc = "define"
  /\ err' = ~ok
  /\ IF ok THEN /\ handle' = "h"
                /\ libExists' = [libExists EXCEPT ![gocKind] = TRUE]
                /\ definedNow' = TRUE
                /\ Goto("autostart")
           ELSE /\ handle' = "nil"
                /\ UNCHANGED <<libExists, definedNow>>
                /\ ReturnErr("define")
  /\ UNCHANGED <<hubAll, libActive, gocKind, gocMode, errP, cfgMode,
                 usedNil, createdNow>>

\* pool.SetAutostart(true) followed by a test of the err left by the previous
\* statement (lines 94-97); err = net.SetAutostart(true) and its test (lines
\* 132-135).
SetAutostart(ok) ==
  /\ gocPc = "autostart"
  /\ IF gocKind = "pool"
       THEN /\ UNCHANGED err
            /\ IF err THEN ReturnErr("autostart")
                      ELSE /\ gocPc' = "create"
                           /\ failed' = IF ok THEN failed ELSE "autostart"
                           /\ UNCHANGED <<ret, retHandle>>
       ELSE /\ err' = ~ok
            /\ IF ok THEN Goto("create") ELSE ReturnErr("autostart")
  /\ UNCHANGED <<hubAll, libVars, gocKind, gocMode, errP, handle, cfgMode,
                 usedNil, definedNow, createdNow>>

\* err = pool.Create(...) (lines 100-103); err = net.Create() (lines 137-140)
Create(ok) ==
  /\ gocPc = "create"
  /\ err' = ~ok
  /\ IF ok THEN /\ libActive' = [libActive EXCEPT ![gocKind] = TRUE]
                /\ createdNow' = TRUE
                /\ Goto(AfterLookup(gocKind))
           ELSE /\ UNCHANGED <<libActive, createdNow>>
                /\ ReturnErr(IF failed = "none" THEN "create" ELSE failed)
  /\ UNCHANGED <<hubAll, libExists, gocKind, gocMode, errP, handle, cfgMode,
                 usedNil, definedNow>>

\* err := pool.Refresh(0) and return pool, nil (lines 107-111).  With the nil
\* pool the call dereferences a nil pointer inside the binding: the runtime
\* panics, or the binding reports an error.
Refresh(o) ==
  /\ gocPc = "refresh"
  /\ o \in (IF handle = "nil" THEN {"panic", "err"} ELSE {"ok", "err"})
  /\ usedNil' = (usedNil \/ handle = "nil")
  /\ err' = (o # "ok")
  /\ IF o = "ok" THEN ReturnHandle
     ELSE IF o = "err" THEN ReturnErr(IF failed = "none" THEN "refresh" ELSE failed)
     ELSE gocPc' = "crashed" /\ UNCHANGED <<ret, retHandle, failed>>
  /\ UNCHANGED <<hubAll, libVars, gocKind, gocMode, errP, handle, cfgMode,
                 definedNow, createdNow>>

\* xmldoc, err := net.GetXMLDesc(0) (lines 146-149)
GetXMLDesc(ok) ==
  /\ gocPc = "getxml"
  /\ usedNil' = (usedNil \/ handle = "nil")
  /\ err' = ~ok
  /\ IF ok THEN Goto("netunmarshal") ELSE ReturnErr("getxml")
  /\ UNCHANGED <<hubAll, libVars, gocKind, gocMode, errP, handle, cfgMode,
                 definedNow, createdNow>>

\* err = netcfg.Unmarshal(xmldoc) and return net, netcfg, nil (lines 151-157)
NetcfgUnmarshal(ok) ==
  /\ gocPc = "netunmarshal"
  /\ err' = ~ok
  /\ IF ok THEN ReturnHandle ELSE ReturnErr("netunmarshal")
  /\ UNCHANGED <<hubAll, libVars, gocKind, gocMode, errP, handle, cfgMode,
                 usedNil, definedNow, createdNow>>

\* The caller has the results and may call again.
GetOrCreateDone ==
  /\ gocPc = "returned"
  /\ gocPc' = "idle"
  /\ UNCHANGED <<hubAll, libVars, gocKind, gocMode, errP, handle, err, cfgMode,
                 ret, retHandle, gocHist>>

GocNext ==
  \/ \E k \in Kinds, md \in Modes : GetOrCreateCall(k, md)
  \/ \E o \in {"nil", "notfound", "other"} : LookupByName(o)
  \/ \E ok \in BOOLEAN : ReadFile(ok)
  \/ \E ok \in BOOLEAN : PoolcfgUnmarshal(ok)
  \/ \E ok \in BOOLEAN : FilepathAbs(ok)
  \/ \E ok \in BOOLEAN : PoolcfgMarshal(ok)
  \/ \E ok \in BOOLEAN : DefineXML(ok)
  \/ \E ok \in BOOLEAN : SetAutostart(ok)
  \/ \E ok \in BOOLEAN : Create(ok)
  \/ \E o \in {"ok", "err", "panic"} : Refresh(o)
  \/ \E ok \in BOOLEAN : GetXMLDesc(ok)
  \/ \E ok \in BOOLEAN : NetcfgUnmarshal(ok)
  \/ GetOrCreateDone

GocSpec == GocInit /\ [][GocNext]_vars

----------------------------------------------------------------------------
\* Observations used by the properties below.

Range(q) == {q[i] : i \in 1..Len(q)}

\* The position of message m in sequence q (0 when absent).
Pos(q, m) == IF m \in Range(q) THEN CHOOSE i \in 1..Len(q) : q[i] = m ELSE 0

\* The send of the message being fanned out has not been attempted on s yet.
Pending(s) == hubPc = "broadcast" /\ s \in todo

\* The accepted messages whose fan-out has already passed client s.
Passed(s) ==
  IF Pending(s) THEN SubSeq(accepted, 1, Len(accepted) - 1) ELSE accepted

\* The registration of s has been processed by the loop.
Inserted(s) == regPc[s] = "done" /\ ~(hubPc = "register" /\ hubClient = s)

----------------------------------------------------------------------------
\* C1 (as stated): a Subscriber whose Register returned before the first
\* Broadcast was called, and whose owner only loops receiving (no Unregister
\* is ever called), is never evicted and has received exactly the accepted
\* messages, in order, once the fan-out has passed it.
C1_OrderingNeverEvicted ==
  \A s \in Subs :
    (/\ regPc[s] = "done"
     /\ unregCalls = 0
     /\ \A m \in Msgs : bcPc[m] # "none" => s \in regAtStart[m])
    => (s \notin evicted /\ received[s] = Passed(s))

----------------------------------------------------------------------------
\* C2 (as stated): for M1 accepted before M2, a Subscriber that receives both
\* receives M1 first, and a Subscriber that has received M2 has received M1 or
\* was already removed and closed when M1 was accepted.
C2_Original ==
  \A s \in Subs : \A i, j \in 1..Len(accepted) :
    (i < j /\ accepted[j] \in Range(received[s]))
    => \/ /\ accepted[i] \in Range(received[s])
          /\ Pos(received[s], accepted[i]) < Pos(received[s], accepted[j])
       \/ s \in goneAt[accepted[i]]

\* C2 (amended): for M1 accepted before M2, a Subscriber that receives both
\* receives M1 first, and a Subscriber that was in the active set when M1 was
\* accepted and has received M2 has received M1 before it.
C2_OrderNoSkip ==
  \A s \in Subs : \A i, j \in 1..Len(accepted) :
    (i < j /\ accepted[j] \in Range(received[s]))
    => /\ accepted[i] \in Range(received[s])
          => Pos(received[s], accepted[i]) < Pos(received[s], accepted[j])
       /\ s \in activeAt[accepted[i]] => accepted[i] \in Range(received[s])

\* One Subscriber has received two messages, a later one only the second.
C2_Witness ==
  \E s, t \in Subs :
    /\ Len(accepted) = 2
    /\ received[s] = accepted
    /\ received[t] = <<accepted[2]>>
    /\ t \notin activeAt[accepted[1]]

----------------------------------------------------------------------------
\* C3: a Subscriber whose owner has never executed a receive, and on which no
\* Unregister was processed, is evicted (channel closed once, removed from the
\* active set) by the attempt of the first message accepted after its
\* registration was processed, and no later message is attempted on it; the
\* Broadcast being fanned out has already returned and no iteration of the
\* fan-out can be blocked.
NeverReceived(s) == cons[s] = "running" /\ s \notin everParked

C3_EvictionOnStall ==
  /\ \A s \in Subs :
       (/\ Inserted(s) /\ NeverReceived(s)
        /\ s \in closed => s \in evicted
        /\ Len(Passed(s)) > insertedAcc[s])
       => /\ s \in evicted /\ s \notin clients /\ closes[s] = 1
          /\ \A k \in 1..Len(accepted) :
               s \in attempted[accepted[k]] <=> k = insertedAcc[s] + 1
  /\ hubPc = "broadcast"
       => /\ bcPc[hubMsg] = "done"
          /\ todo # {}
          /\ \A c \in todo : ENABLED HubFanOut(c)

\* A stalled Subscriber was evicted by the first of two accepted Broadcasts.
C3_Witness ==
  \E s \in Subs :
    /\ NeverReceived(s) /\ s \in evicted
    /\ Len(accepted) = 2 /\ hubPc = "select"
    /\ insertedAcc[s] = 0
    /\ \A m \in Range(accepted) : bcPc[m] = "done"

----------------------------------------------------------------------------
\* C4 (as stated): all Register calls of the run returned before the single
\* Broadcast was called and no Unregister is called; then the active set at
\* fan-out is exactly the registered Subscribers and, once the fan-out is
\* over, each has received exactly one copy of the message.
C4_ConcurrentRegistration ==
  (/\ bcPc[1] = "done" /\ bcPc[2] = "none"
   /\ unregCalls = 0
   /\ regAtStart[1] = {s \in Subs : regPc[s] # "none"}
   /\ hubPc = "select")
  => /\ activeAt[1] = regAtStart[1]
     /\ \A s \in regAtStart[1] : received[s] = <<1>>

----------------------------------------------------------------------------
\* C5: when a message has been accepted, every Subscriber whose Register had
\* returned before the Broadcast call started was in the active set at the
\* accept, unless it had been removed and closed before; and when the
\* fan-out of a message is over, a send was attempted on every Subscriber of
\* the active set at the accept.
FanOutOver(m) == m \in Range(accepted) /\ hubMsg # m

C5_RegisterVisibility ==
  \A m \in Range(accepted) :
    /\ \A s \in regAtStart[m] : s \in activeAt[m] \/ s \in goneAt[m]
    /\ FanOutOver(m) => activeAt[m] \subseteq attempted[m]

\* A Broadcast called after a Register returned was attempted on its client.
C5_Witness ==
  \E m \in Range(accepted) : \E s \in regAtStart[m] :
    FanOutOver(m) /\ s \in attempted[m] /\ m \in Range(received[s])

----------------------------------------------------------------------------
\* C6: every message in a Subscriber's received sequence was accepted while
\* the Subscriber was in the active set, a send of it was attempted on that
\* Subscriber, and it was accepted after the Subscriber's Register call
\* started; and a step that adds to one Subscriber's received sequence is the
\* fan-out iteration on that Subscriber, adds the message being fanned out,
\* and adds nothing to any other Subscriber.
C6_Inv ==
  \A s \in Subs : \A k \in 1..Len(received[s]) :
    LET m == received[s][k] IN
      /\ m \in Range(accepted)
      /\ s \in activeAt[m]
      /\ s \in attempted[m]
      /\ Pos(accepted, m) > regStartAcc[s]

C6_Act ==
  \A s \in Subs :
    received'[s] # received[s]
    => /\ Pending(s)
       /\ s \notin todo'
       /\ received'[s] = Append(received[s], hubMsg)
       /\ \A t \in Subs \ {s} : received'[t] = received[t]

C6_LateJoinNoCrossTalk == []C6_Inv /\ [][C6_Act]_vars

\* Of two Subscribers active for the second message, the one whose Register
\* call started after the first message was accepted received only the
\* second, and the other received both.
C6_Witness ==
  \E s, t \in Subs :
    /\ Len(accepted) = 2
    /\ regStartAcc[t] = 1 /\ regStartAcc[s] = 0
    /\ {s, t} \subseteq activeAt[accepted[2]]
    /\ received[t] = <<accepted[2]>>
    /\ Len(received[s]) = 2

----------------------------------------------------------------------------
\* C7: the step at which a Broadcast call returns is the step at which the
\* loop, at its select, receives the message: nothing has been attempted or
\* delivered yet; no panic is ever raised; and under fairness of the dispatch
\* loop every Broadcast call that is sending eventually returns.
C7_Act ==
  \A m \in Msgs :
    (bcPc[m] = "sending" /\ bcPc'[m] = "done")
    => /\ hubPc = "select"
       /\ accepted' = Append(accepted, m)
       /\ attempted' = attempted
       /\ received' = received
       /\ clients' = clients /\ closed' = closed

C7_BroadcastNeverWaits ==
  /\ [][C7_Act]_vars
  /\ []~panicked
  /\ \A m \in Msgs : (bcPc[m] = "sending") ~> (bcPc[m] = "done")

\* A Broadcast has returned while the fan-out has yet to reach a Subscriber
\* that is not receiving, and another Broadcast call is waiting.
C7_Witness ==
  /\ hubPc = "broadcast" /\ bcPc[hubMsg] = "done"
  /\ \E c \in todo : cons[c] = "running"
  /\ \E m \in Msgs : bcPc[m] = "sending"

----------------------------------------------------------------------------
\* C8: the unregister case executed for a client that is not in the active
\* set (already unregistered, or evicted) changes neither the active set nor
\* any channel or consumer, closes nothing and raises no panic.
C8_UnregisterIdempotent ==
  [][(hubPc = "unregister" /\ hubPc' = "select" /\ hubClient \notin clients)
     => UNCHANGED <<clients, closed, closes, cons, received, evicted, panicked>>]_vars

\* The loop is about to process a second Unregister of a client that the
\* first Unregister removed and closed.
C8_Witness ==
  /\ hubPc = "unregister"
  /\ hubClient \in closed \ evicted
  /\ hubClient \notin clients
  /\ closes[hubClient] = 1

----------------------------------------------------------------------------
\* C9: a client in the active set has an open channel, no channel is closed
\* more than once, no send on or close of a closed channel (a panic) occurs;
\* and a channel is closed exactly at the step that removes its client from
\* the active set.
C9_Inv ==
  /\ \A s \in clients : s \notin closed
  /\ \A s \in Subs : closes[s] <= 1 /\ (s \in closed <=> closes[s] = 1)
  /\ ~panicked

C9_Act ==
  \A s \in Subs :
    (closes'[s] # closes[s]) <=> (s \in clients /\ s \notin clients')

C9_CloseExactlyOnce == []C9_Inv /\ [][C9_Act]_vars

\* One client was closed by an Unregister and another by an eviction.
C9_Witness ==
  \E s, t \in Subs :
    /\ s \in evicted /\ closes[s] = 1
    /\ t \in closed \ evicted /\ closes[t] = 1
    /\ unregSending = {} /\ hubPc = "select"

----------------------------------------------------------------------------
\* C10 (as stated): a Register or Unregister call that is at its send can
\* always complete it and return, whatever the dispatch loop is doing.
C10_Original ==
  /\ \A s \in Subs : regPc[s] = "sending" => ENABLED HubRegister(s)
  /\ \A s \in unregSending : ENABLED HubUnregister(s)

\* C10 (amended): a Register or Unregister call returns at the step at which
\* the dispatch loop, at its select, receives the request from the unbuffered
\* intake, before the loop has added the client to, or removed it from, the
\* active set; it does not return while the loop is handling another request.
C10_ReturnAtRendezvous ==
  [][/\ \A s \in Subs :
          (regPc[s] = "sending" /\ regPc'[s] = "done")
          => /\ hubPc = "select" /\ hubPc' = "register" /\ hubClient' = s
             /\ s \notin clients' /\ clients' = clients
     /\ \A s \in Subs :
          (s \in unregSending /\ s \notin unregSending')
          => /\ hubPc = "select" /\ hubPc' = "unregister" /\ hubClient' = s
             /\ clients' = clients /\ closed' = closed]_vars

\* A Register call and an Unregister call are both blocked at their send
\* while the loop is in the middle of a fan-out.
C10_Witness ==
  /\ hubPc = "broadcast"
  /\ \E s \in Subs : regPc[s] = "sending"
  /\ unregSending # {}

----------------------------------------------------------------------------
\* C11: while a fan-out is in progress no register, unregister or broadcast
\* request is received by the loop and the active set only loses the clients
\* the fan-out evicts; every iteration attempts the message on one client of
\* the active set at the accept that was not attempted before, and when the
\* fan-out is over the clients attempted are exactly that active set.
C11_Act ==
  hubPc = "broadcast"
  => /\ hubPc' \in {"broadcast", "select"}
     /\ hubPc' = "broadcast" => hubMsg' = hubMsg
     /\ accepted' = accepted
     /\ \A s \in Subs : regPc[s] = "sending" => regPc'[s] = "sending"
     /\ unregSending \subseteq unregSending'
     /\ clients' \subseteq clients
     /\ todo' # todo
          => \E c \in todo :
               /\ todo' = todo \ {c}
               /\ c \in activeAt[hubMsg] \ attempted[hubMsg]
               /\ attempted'[hubMsg] = attempted[hubMsg] \cup {c}
               /\ clients \ clients' \subseteq {c}

C11_Inv ==
  \A m \in Range(accepted) :
    IF FanOutOver(m)
      THEN attempted[m] = activeAt[m]
      ELSE attempted[m] = activeAt[m] \ todo /\ todo \subseteq activeAt[m]

C11_FanOutAtomic == []C11_Inv /\ [][C11_Act]_vars

\* A fan-out over two clients is half done while a Register call waits at
\* its send.
C11_Witness ==
  /\ hubPc = "broadcast"
  /\ Cardinality(activeAt[hubMsg]) = 2
  /\ Cardinality(todo) = 1
  /\ \E s \in Subs : regPc[s] = "sending"

----------------------------------------------------------------------------
\* C12: a step of a Register, Unregister or Broadcast caller (the start of a
\* call, or the rendezvous at which it returns) and a receive of a consumer
\* leave the active set unchanged; the active set changes only in the body of
\* the register case (adding the received client), in the body of the
\* unregister case (removing the received client) and in an iteration of the
\* fan-out (removing the client the iteration is on).
CallerStep ==
  \/ regPc' # regPc
  \/ bcPc' # bcPc
  \/ unregSending' # unregSending
  \/ budget' # budget

ConsumerStep ==
  \E s \in Subs : cons[s] = "running" /\ cons'[s] \in {"waiting", "eos"}

C12_Act ==
  /\ (CallerStep \/ ConsumerStep) => clients' = clients
  /\ clients' # clients
       => \/ /\ hubPc = "register" /\ hubPc' = "select"
             /\ clients' = clients \cup {hubClient}
          \/ /\ hubPc = "unregister" /\ hubPc' = "select"
             /\ clients' = clients \ {hubClient}
          \/ /\ hubPc = "broadcast"
             /\ \E c \in todo : clients' = clients \ {c} /\ todo' = todo \ {c}

C12_SingleWriter == [][C12_Act]_vars

\* The map holds a client while a Register call, an Unregister call and a
\* Broadcast call are at their send and a consumer is parked.
C12_Witness ==
  /\ clients # {}
  /\ \E s \in Subs : regPc[s] = "sending"
  /\ \E m \in Msgs : bcPc[m] = "sending"
  /\ unregSending # {}
  /\ \E s \in clients : cons[s] = "waiting"

----------------------------------------------------------------------------
\* C13: an iteration of the fan-out on client c delivers the message to c and
\* keeps c in the active set with its channel open when the consumer of c is
\* parked in its receive, and otherwise closes the channel of c and removes c
\* in that same step; it changes nothing of any other client.  When the
\* fan-out of a message is over, every client of the active set at the accept
\* has either received the message or been evicted without receiving it.
C13_Act ==
  (hubPc = "broadcast" /\ todo' # todo)
  => \E c \in todo :
       /\ todo' = todo \ {c}
       /\ IF cons[c] = "waiting"
            THEN /\ received'[c] = Append(received[c], hubMsg)
                 /\ c \in clients' /\ c \notin closed' /\ c \notin evicted'
            ELSE /\ received'[c] = received[c]
                 /\ c \notin clients' /\ c \in closed' /\ c \in evicted'
       /\ \A t \in Subs \ {c} :
            /\ received'[t] = received[t]
            /\ cons'[t] = cons[t]
            /\ (t \in clients') = (t \in clients)
            /\ (t \in closed') = (t \in closed)

C13_Inv ==
  \A m \in Range(accepted) :
    FanOutOver(m)
    => \A s \in activeAt[m] :
         \/ m \in Range(received[s])
         \/ s \in evicted /\ m \notin Range(received[s])

C13_PerSubscriberOutcome == []C13_Inv /\ [][C13_Act]_vars

\* One fan-out over two clients evicted one and delivered to the other,
\* which is still in the active set.
C13_Witness ==
  \E m \in Range(accepted) : \E s, t \in activeAt[m] :
    /\ FanOutOver(m)
    /\ s \in evicted /\ m \notin Range(received[s])
    /\ m \in Range(received[t]) /\ t \in clients

----------------------------------------------------------------------------
\* C14: an iteration of the fan-out that reaches a client whose consumer is
\* not parked in a receive evicts it, whatever it has received before; an
\* evicted client has received every message from its insertion up to the
\* one whose send failed, which it has not received, and no later message is
\* attempted on it or received by it.
C14_Act ==
  \A c \in Subs :
    (Pending(c) /\ c \notin todo' /\ cons[c] # "waiting")
    => /\ c \in evicted' /\ c \in closed' /\ c \notin clients'
       /\ received'[c] = received[c]

\* The position in accepted of the message whose send evicted s.
EvictedAt(s) == insertedAcc[s] + Len(received[s]) + 1

C14_Inv ==
  \A s \in evicted :
    /\ EvictedAt(s) <= Len(accepted)
    /\ received[s] = SubSeq(accepted, insertedAcc[s] + 1, EvictedAt(s) - 1)
    /\ \A k \in 1..Len(accepted) :
         s \in attempted[accepted[k]]
         <=> (insertedAcc[s] < k /\ k <= EvictedAt(s))

C14_EagerEviction == []C14_Inv /\ [][C14_Act]_vars

\* A client that took the first message and was still handling it when the
\* second was fanned out was evicted, and a third message went by without it.
C14_Witness ==
  \E s \in evicted :
    /\ Len(accepted) = 3 /\ hubPc = "select"
    /\ received[s] = <<accepted[1]>>
    /\ cons[s] = "running"

----------------------------------------------------------------------------
\* C16: the messages a Subscriber has received are, in order and each once,
\* the accepted messages that follow its insertion in the active set, with
\* none skipped; while it is in the active set they reach up to the last
\* message whose fan-out has passed it, and after its removal nothing is
\* added.
C16_Inv ==
  \A s \in Subs :
    /\ insertedAcc[s] + Len(received[s]) <= Len(accepted)
    /\ received[s]
         = SubSeq(accepted, insertedAcc[s] + 1, insertedAcc[s] + Len(received[s]))
    /\ \A i, j \in 1..Len(received[s]) : i # j => received[s][i] # received[s][j]
    /\ s \in clients => insertedAcc[s] + Len(received[s]) = Len(Passed(s))
    /\ ~Inserted(s) => received[s] = <<>>

C16_Act ==
  \A s \in Subs : (s \in closed /\ s \notin clients) => received'[s] = received[s]

C16_ContiguousRun == []C16_Inv /\ [][C16_Act]_vars

\* A client inserted after the first message has received the second and the
\* third and is still in the active set.
C16_Witness ==
  \E s \in clients :
    /\ Len(accepted) = 3 /\ hubPc = "select"
    /\ insertedAcc[s] = 1
    /\ received[s] = <<accepted[2], accepted[3]>>

----------------------------------------------------------------------------
\* C17: the body of the register and of the unregister case is one step back
\* to the select; every attempt of a fan-out takes one client off the clients
\* still to visit, which are among the active set at the accept; whenever the
\* loop is inside a case body its next step is enabled, whatever the
\* consumers and callers are doing; and under fairness of the dispatch loop
\* the loop always comes back to its select and every Register, Unregister
\* and Broadcast call that is at its send is eventually received.
C17_Act ==
  /\ (hubPc \in {"register", "unregister"} /\ hubPc' # hubPc) => hubPc' = "select"
  /\ (hubPc = "broadcast" /\ attempted' # attempted)
       => todo' \subseteq todo /\ Cardinality(todo') = Cardinality(todo) - 1

C17_Inv ==
  /\ hubPc # "select" => ENABLED HubBody
  /\ hubPc = "broadcast" => todo # {} /\ todo \subseteq activeAt[hubMsg]
  /\ ~panicked

C17_LoopNeverWaits ==
  /\ []C17_Inv
  /\ [][C17_Act]_vars
  /\ (hubPc # "select") ~> (hubPc = "select")
  /\ \A s \in Subs : (regPc[s] = "sending") ~> (regPc[s] = "done")
  /\ \A s \in Subs : (s \in unregSending) ~> (s \notin unregSending)
  /\ \A m \in Msgs : (bcPc[m] = "sending") ~> (m \in Range(accepted))

\* The fan-out is about to reach a client whose owner is not receiving but
\* blocked in its own Unregister call.
C17_Witness ==
  /\ hubPc = "broadcast"
  /\ \E s \in todo : s \in unregSending /\ cons[s] = "running"

----------------------------------------------------------------------------
\* A Broadcast of message m was called after an Unregister of s had returned.
CalledAfterUnregister(s, m) == unregRet[s] >= 1 /\ m >= unregRet[s]

\* C15, steps: a channel becomes closed only in the unregister case taken for
\* that client while it is in the map, or in the default branch of a fan-out
\* send to that client; the step that follows the acceptance of an Unregister
\* is the body of its case, which leaves the client closed and out of the map,
\* with no request accepted in between; a closed channel gets no message.
C15_Act ==
  /\ \A s \in Subs :
       (s \in closed' /\ s \notin closed)
         => \/ hubPc = "unregister" /\ hubClient = s /\ s \in clients
            \/ /\ hubPc = "broadcast" /\ s \in todo /\ cons[s] # "waiting"
               /\ s \in evicted' /\ s \notin evicted
  /\ hubPc = "unregister"
       => /\ accepted' = accepted
          /\ \A s \in Subs : regPc[s] = "sending" => regPc'[s] = "sending"
          /\ unregSending \subseteq unregSending'
          /\ hubPc' # hubPc => hubClient \in closed' /\ hubClient \notin clients'
  /\ \A s \in Subs : s \in closed => received'[s] = received[s]

\* C15, states: a closed client was unregistered or evicted and is out of the
\* map; once Unregister(s) has returned and its case is done, s is closed; and
\* no message whose Broadcast was called after Unregister(s) returned is sent
\* to s or received by s.
C15_Inv ==
  \A s \in Subs :
    /\ s \in closed => (s \in evicted \/ unregRet[s] >= 1) /\ s \notin clients
    /\ (unregRet[s] >= 1 /\ ~(hubPc = "unregister" /\ hubClient = s))
         => s \in closed
    /\ \A m \in Msgs :
         CalledAfterUnregister(s, m)
           => /\ m \notin Range(received[s])
              /\ s \notin attempted[m]
              /\ m \in Range(accepted) => s \notin activeAt[m]

\* C15: end of stream.  A channel is closed only by Unregister of its client
\* or by its eviction; after Unregister(s) returned the loop closes s before
\* accepting anything else, so no Broadcast called afterwards reaches s; a
\* closed channel never delivers again, and an owner that keeps reading
\* eventually observes end-of-stream.
C15_EndOfStream ==
  /\ []C15_Inv
  /\ [][C15_Act]_vars
  /\ \A s \in Subs : (s \in closed) ~> (cons[s] = "eos")

\* Unregister(s) returned, a Broadcast called afterwards was accepted, and the
\* owner of s, who was never evicted, has observed end-of-stream.
C15_Witness ==
  \E s \in Subs, m \in Msgs :
    /\ CalledAfterUnregister(s, m)
    /\ m \in Range(accepted)
    /\ s \notin evicted
    /\ cons[s] = "eos"


----------------------------------------------------------------------------
\* C18 (as stated): get-or-create error handling.  The resource is defined
\* and created only when the lookup failed with the not-found code; when the
\* lookup failed with another error the call uses no nil handle, creates
\* nothing, does not crash and returns an error; and when a step after the
\* lookup failed the call returns an error and no handle.
C18_GetOrCreateErrors ==
  /\ (definedNow \/ createdNow) => errP = "notfound"
  /\ errP = "other"
       => /\ ~usedNil /\ ~definedNow /\ ~createdNow
          /\ gocPc # "crashed"
          /\ gocPc = "returned" => ret = "err" /\ retHandle = "nil"
  /\ (gocPc = "returned" /\ failed # "none") => ret = "err" /\ retHandle = "nil"

============================================================================
